---- MODULE Spec2Model ----
(***************************************************************************)
(* A model of zerver/lib/create_user.py: random_api_key,                   *)
(* copy_user_settings, create_user_profile and create_user, together with  *)
(* the three tables create_user writes (UserProfile, Recipient,            *)
(* Subscription).                                                          *)
(*                                                                         *)
(* Characters are one-character strings and strings of characters are      *)
(* sequences of them; bytes are the integers 0..255.  Python's None is     *)
(* None where a string is expected, NoneInt where an integer (a primary    *)
(* key, a bot type) is expected, and the empty sequence where an object    *)
(* is expected (<<obj>> being the object).                                 *)
(***************************************************************************)
EXTENDS Integers, Sequences, FiniteSets, TLC

VARIABLES
    key_in,          \* the random draws of the last random_api_key call
    api_key,         \* the string the last random_api_key call returned
    source_profile,  \* copy_user_settings: the source object
    target_profile,  \* copy_user_settings: the target object
    target_before,   \* the target as it was before the last copy
    copies,          \* number of copy_user_settings calls made on the pair
    profiles,        \* persisted UserProfile rows
    recipients,      \* persisted Recipient rows
    subscriptions,   \* persisted Subscription rows
    pc,              \* position of the current call
    args,            \* arguments of the current call
    user_profile,    \* the in-memory object of the current call
    recipient,       \* create_user's local `recipient` (a Recipient id)
    result,          \* what the current call returned to its caller
    returned,        \* ids of the profiles create_user has returned
    failed_at,       \* the step of the current call that raised
    db_at_call       \* the three tables as they were when the call began

keyvars  == <<key_in, api_key>>
copyvars == <<source_profile, target_profile, target_before, copies>>
db       == <<profiles, recipients, subscriptions>>
callvars == <<pc, args, user_profile, recipient, result, returned, failed_at, db_at_call>>
vars     == <<key_in, api_key, source_profile, target_profile, target_before, copies,
              profiles, recipients, subscriptions,
              pc, args, user_profile, recipient, result, returned, failed_at, db_at_call>>

None    == "None"
NoneInt == -1

-----------------------------------------------------------------------------
(* random_api_key                                                          *)

ascii_lowercase == <<"a","b","c","d","e","f","g","h","i","j","k","l","m",
                     "n","o","p","q","r","s","t","u","v","w","x","y","z">>
ascii_uppercase == <<"A","B","C","D","E","F","G","H","I","J","K","L","M",
                     "N","O","P","Q","R","S","T","U","V","W","X","Y","Z">>
digits          == <<"0","1","2","3","4","5","6","7","8","9">>
ascii_letters   == ascii_lowercase \o ascii_uppercase

\* The standard base64 alphabet (RFC 4648), indexed by sextet + 1.
Base64Table == ascii_uppercase \o ascii_lowercase \o digits \o <<"+", "/">>
Pad == "="

KeyBytes == 24
ChoiceCount == 62

\* The four characters that encode a group of one, two or three bytes.
EncodeGroup(g) ==
    LET b1 == g[1]
        b2 == IF Len(g) >= 2 THEN g[2] ELSE 0
        b3 == IF Len(g) >= 3 THEN g[3] ELSE 0
        s1 == b1 \div 4
        s2 == (b1 % 4) * 16 + (b2 \div 16)
        s3 == (b2 % 16) * 4 + (b3 \div 64)
        s4 == b3 % 64
    IN  <<Base64Table[s1 + 1],
          Base64Table[s2 + 1],
          IF Len(g) >= 2 THEN Base64Table[s3 + 1] ELSE Pad,
          IF Len(g) >= 3 THEN Base64Table[s4 + 1] ELSE Pad>>

RECURSIVE b2a_base64(_)
b2a_base64(s) ==
    IF Len(s) = 0 THEN <<>>
    ELSE IF Len(s) <= 3 THEN EncodeGroup(s)
    ELSE EncodeGroup(SubSeq(s, 1, 3)) \o b2a_base64(SubSeq(s, 4, Len(s)))

\* bytes.translate(bytes.maketrans(b'+/', altchars))
Translate(s, altchars) ==
    [i \in 1..Len(s) |->
        IF s[i] = "+" THEN altchars[1]
        ELSE IF s[i] = "/" THEN altchars[2]
        ELSE s[i]]

b64encode(s, altchars) == Translate(b2a_base64(s), altchars)

\* r1, r2: the two os.urandom(1) bytes; raw: the os.urandom(24) bytes.
AltChars(r1, r2) ==
    LET choices == ascii_letters \o digits
    IN  <<choices[(r1 % ChoiceCount) + 1], choices[(r2 % ChoiceCount) + 1]>>

\* Variant: the encoding without the alternate characters.
random_api_key_plain(r1, r2, raw) == b2a_base64(raw)

random_api_key(r1, r2, raw) == b64encode(raw, AltChars(r1, r2))

\* The draws explored: alt bytes k * AltStride, and the raw strings
\* seed, seed + step, seed + 2 * step, ... for the seeds FirstSeed + k * SeedStride.
MaxAlt     == 2
MaxSeed    == 7
MaxStep    == 2
AltStride  == 83
FirstSeed  == 251
SeedStride == 36
AltSample  == {(k * AltStride) % 256 : k \in 0..MaxAlt}
SeedSample == {(FirstSeed + k * SeedStride) % 256 : k \in 0..MaxSeed}
Urandom(n, seed, step) == [i \in 1..n |-> (seed + (i - 1) * step) % 256]

KeyInit ==
    /\ key_in = [altchars |-> <<>>, raw |-> <<>>]
    /\ api_key = <<>>

RandomApiKey ==
    \E r1 \in AltSample, r2 \in AltSample, seed \in SeedSample, step \in 0..MaxStep :
        LET raw == Urandom(KeyBytes, seed, step) IN
        /\ key_in' = [altchars |-> AltChars(r1, r2), raw |-> raw]
        /\ api_key' = random_api_key(r1, r2, raw)
        /\ UNCHANGED <<copyvars, db, callvars>>

-----------------------------------------------------------------------------
(* UserProfile objects                                                     *)

\* UserProfile.property_types and UserProfile.notification_setting_types.
property_types == {"default_language", "timezone", "twenty_four_hour_time"}
notification_setting_types == {"enable_sounds", "enable_desktop_notifications"}

AVATAR_FROM_GRAVATAR == "G"
AVATAR_FROM_USER     == "U"
TUTORIAL_WAITING     == "W"
PERSONAL             == 1
DEFAULT_BOT          == 1
Now                  == "now"

\* A UserProfile() built with no keyword arguments: every column at its default,
\* no primary key yet.
UserProfileDefaults ==
    [id |-> NoneInt, email |-> <<>>, is_staff |-> FALSE, is_active |-> TRUE,
     full_name |-> None, short_name |-> None, last_login |-> None,
     date_joined |-> None, realm |-> NoneInt, pointer |-> NoneInt, is_bot |-> FALSE,
     bot_type |-> NoneInt, bot_owner |-> NoneInt, is_mirror_dummy |-> FALSE,
     tos_version |-> None, timezone |-> "", tutorial_status |-> TUTORIAL_WAITING,
     enter_sends |-> FALSE, onboarding_steps |-> "[]", default_language |-> "en",
     twenty_four_hour_time |-> FALSE, password |-> <<>>, api_key |-> <<>>,
     is_realm_admin |-> FALSE, avatar_source |-> AVATAR_FROM_GRAVATAR,
     default_sending_stream |-> NoneInt,
     default_events_register_stream |-> NoneInt,
     default_all_public_streams |-> FALSE,
     enable_sounds |-> TRUE, enable_desktop_notifications |-> TRUE]

Fields == DOMAIN UserProfileDefaults

\* setattr(target, name, getattr(source, name)) for every name of names.
CopyAttrs(names, source, target) ==
    [f \in DOMAIN target |-> IF f \in names THEN source[f] ELSE target[f]]

\* Variant: the second loop left out.
copy_user_settings_no_notifications(source, target) ==
    LET t1 == CopyAttrs(property_types, source, target)
        t3 == [t1 EXCEPT !["full_name"] = source["full_name"]]
    IN  [source |-> source, target |-> t3]

\* Variant: source and target exchanged.
copy_user_settings_reversed(source, target) ==
    LET s1 == CopyAttrs(property_types, target, source)
        s2 == CopyAttrs(notification_setting_types, target, s1)
        s3 == [s2 EXCEPT !["full_name"] = target["full_name"]]
    IN  [source |-> s3, target |-> target]

\* Variant: every field but the primary key copied.
copy_user_settings_all_fields(source, target) ==
    [source |-> source, target |-> [source EXCEPT !["id"] = target["id"]]]

\* The two objects as the call leaves them.
copy_user_settings(source, target) ==
    LET t1 == CopyAttrs(property_types, source, target)
        t2 == CopyAttrs(notification_setting_types, source, t1)
        t3 == [t2 EXCEPT !["full_name"] = source["full_name"]]
    IN  [source |-> source, target |-> t3]

\* UserProfile.set_password / has_usable_password: None gives the unusable
\* marker, anything else a hash of the raw password.
UnusablePassword == <<"!">>
set_password(raw) == IF raw = None THEN UnusablePassword ELSE <<"pbkdf2", raw>>
has_usable_password(p) == p["password"] # UnusablePassword

\* The objects copy_user_settings is exercised on.
SettingsObject(name, tz, lang, h24, snd, desk, email, pw, key) ==
    [UserProfileDefaults EXCEPT
        !["full_name"] = name, !["short_name"] = name, !["timezone"] = tz,
        !["default_language"] = lang, !["twenty_four_hour_time"] = h24,
        !["enable_sounds"] = snd, !["enable_desktop_notifications"] = desk,
        !["email"] = email, !["password"] = set_password(pw), !["api_key"] = key,
        !["realm"] = 1, !["last_login"] = Now, !["date_joined"] = Now,
        !["pointer"] = -1]

CopySources ==
    {SettingsObject(n, tz, l, h, s, d, <<"s", "@", "x">>, "pw", <<"k", "1">>) :
        n \in {"Src", "Tgt"}, tz \in {"", "UTC"}, l \in {"en", "de"},
        h \in BOOLEAN, s \in BOOLEAN, d \in BOOLEAN}

CopyTargets ==
    {SettingsObject(n, tz, l, h, s, s, e, p, <<"k", "2">>) :
        n \in {"Tgt"}, tz \in {"", "UTC"}, l \in {"en", "de"},
        h \in BOOLEAN, s \in BOOLEAN,
        e \in {<<"t", "@", "x">>, <<"u", "@", "x">>}, p \in {None, "pw"}}

MaxCopies == 2

CopyInit ==
    /\ source_profile = UserProfileDefaults
    /\ target_profile = UserProfileDefaults
    /\ target_before = UserProfileDefaults
    /\ copies = 0

CopyStart ==
    /\ source_profile \in CopySources
    /\ target_profile \in CopyTargets
    /\ target_before = UserProfileDefaults
    /\ copies = 0

CopyUserSettings ==
    /\ copies < MaxCopies
    /\ LET after == copy_user_settings(source_profile, target_profile) IN
        /\ source_profile' = after.source
        /\ target_profile' = after.target
    /\ target_before' = target_profile
    /\ copies' = copies + 1
    /\ UNCHANGED <<keyvars, db, callvars>>

-----------------------------------------------------------------------------
(* create_user_profile                                                     *)

Realms == <<[default_language |-> "en", default_twenty_four_hour_time |-> FALSE],
            [default_language |-> "de", default_twenty_four_hour_time |-> TRUE]>>

IndexOf(seq, c) ==
    IF \E i \in 1..Len(seq) : seq[i] = c
    THEN CHOOSE i \in 1..Len(seq) : seq[i] = c
    ELSE 0

\* str.lower() on one character
LowerChar(c) ==
    LET i == IndexOf(ascii_uppercase, c)
    IN  IF i = 0 THEN c ELSE ascii_lowercase[i]

Lower(s) == [i \in 1..Len(s) |-> LowerChar(s[i])]

\* str.strip() of spaces
RECURSIVE Strip(_)
Strip(s) ==
    IF Len(s) = 0 THEN s
    ELSE IF Head(s) = " " THEN Strip(Tail(s))
    ELSE IF s[Len(s)] = " " THEN Strip(SubSeq(s, 1, Len(s) - 1))
    ELSE s

\* UserManager.normalize_email: lowercase what follows the last '@'.
normalize_email(email) ==
    LET e   == Strip(email)
        ats == {i \in 1..Len(e) : e[i] = "@"}
    IN  IF ats = {} THEN email
        ELSE LET k == CHOOSE i \in ats : \A j \in ats : j <= i
             IN  SubSeq(e, 1, k) \o Lower(SubSeq(e, k + 1, Len(e)))

\* bool(bot_type)
Truthy(n) == n # NoneInt /\ n # 0

\* Variant: the password dropped only for an inactive bot.
create_user_profile_keeps_password(a, key) ==
    [UserProfileDefaults EXCEPT
        !["email"] = normalize_email(a.email), !["is_staff"] = FALSE,
        !["is_active"] = a.active, !["full_name"] = a.full_name,
        !["short_name"] = a.short_name, !["last_login"] = Now,
        !["date_joined"] = Now, !["realm"] = a.realm, !["pointer"] = -1,
        !["is_bot"] = Truthy(a.bot_type), !["bot_type"] = a.bot_type,
        !["bot_owner"] = a.bot_owner, !["is_mirror_dummy"] = a.is_mirror_dummy,
        !["tos_version"] = a.tos_version, !["timezone"] = a.timezone,
        !["tutorial_status"] = a.tutorial_status,
        !["enter_sends"] = a.enter_sends, !["onboarding_steps"] = "[]",
        !["default_language"] = Realms[a.realm].default_language,
        !["twenty_four_hour_time"] = Realms[a.realm].default_twenty_four_hour_time,
        !["password"] = set_password(IF Truthy(a.bot_type) /\ ~a.active
                                     THEN None ELSE a.password),
        !["api_key"] = key]

\* a: the call's arguments by name; key: the string random_api_key returned.
create_user_profile(a, key) ==
    LET password == IF Truthy(a.bot_type) \/ ~a.active THEN None ELSE a.password
    IN  [UserProfileDefaults EXCEPT
        !["email"] = normalize_email(a.email), !["is_staff"] = FALSE,
        !["is_active"] = a.active, !["full_name"] = a.full_name,
        !["short_name"] = a.short_name, !["last_login"] = Now,
        !["date_joined"] = Now, !["realm"] = a.realm, !["pointer"] = -1,
        !["is_bot"] = Truthy(a.bot_type), !["bot_type"] = a.bot_type,
        !["bot_owner"] = a.bot_owner, !["is_mirror_dummy"] = a.is_mirror_dummy,
        !["tos_version"] = a.tos_version, !["timezone"] = a.timezone,
        !["tutorial_status"] = a.tutorial_status,
        !["enter_sends"] = a.enter_sends, !["onboarding_steps"] = "[]",
        !["default_language"] = Realms[a.realm].default_language,
        !["twenty_four_hour_time"] = Realms[a.realm].default_twenty_four_hour_time,
        !["password"] = set_password(password),
        !["api_key"] = key]

-----------------------------------------------------------------------------
(* create_user                                                             *)

\* Lines 77-95: the object as it stands when save() is called.
create_user_object(a, key) ==
    LET p0 == create_user_profile(
                  [realm |-> a.realm, email |-> a.email, password |-> a.password,
                   active |-> a.active, bot_type |-> a.bot_type,
                   full_name |-> a.full_name, short_name |-> a.short_name,
                   bot_owner |-> a.bot_owner, is_mirror_dummy |-> a.is_mirror_dummy,
                   tos_version |-> a.tos_version, timezone |-> a.timezone,
                   tutorial_status |-> TUTORIAL_WAITING, enter_sends |-> FALSE],
                  key)
        p1 == [p0 EXCEPT
                  !["is_realm_admin"] = a.is_realm_admin,
                  !["avatar_source"] = a.avatar_source,
                  !["timezone"] = a.timezone,
                  !["default_sending_stream"] = a.default_sending_stream,
                  !["default_events_register_stream"] =
                      a.default_events_register_stream]
        p2 == IF a.default_all_public_streams # <<>>
              THEN [p1 EXCEPT !["default_all_public_streams"] =
                                  a.default_all_public_streams[1]]
              ELSE p1
    IN  IF a.source_profile # <<>>
        THEN copy_user_settings(a.source_profile[1], p2).target
        ELSE p2

\* An existing account given as source_profile.
SourceProfile ==
    [SettingsObject("Src", "Europe/Warsaw", "pl", TRUE, FALSE, FALSE,
                    <<"s", "@", "x">>, "srcpw", <<"k", "1">>)
        EXCEPT !["id"] = 100, !["is_realm_admin"] = FALSE,
               !["avatar_source"] = AVATAR_FROM_USER, !["realm"] = 2]

\* The calls explored: every combination of password, active, bot_type and
\* source_profile; the other arguments take both of their values across the
\* combinations.
CreateUserCall(password, active, bot_type, source) ==
    [email |-> IF Truthy(bot_type) THEN <<"b", "o", "@", "e", "x">>
               ELSE <<"A", "l", "@", "E", "x">>,
     password |-> password, realm |-> 1,
     full_name |-> "Al", short_name |-> "al", active |-> active,
     is_realm_admin |-> active /\ ~Truthy(bot_type), bot_type |-> bot_type,
     bot_owner |-> IF Truthy(bot_type) THEN 100 ELSE NoneInt,
     tos_version |-> None,
     timezone |-> IF password = None THEN "" ELSE "UTC",
     avatar_source |-> IF Truthy(bot_type) THEN AVATAR_FROM_USER
                       ELSE AVATAR_FROM_GRAVATAR,
     is_mirror_dummy |-> ~active,
     default_sending_stream |-> NoneInt,
     default_events_register_stream |-> NoneInt,
     default_all_public_streams |-> IF Truthy(bot_type) THEN <<TRUE>> ELSE <<>>,
     source_profile |-> source]

CreateUserArgs ==
    {CreateUserCall(pw, act, bt, src) :
        pw \in {None, "pw"}, act \in BOOLEAN, bt \in {NoneInt, DEFAULT_BOT},
        src \in {<<>>, <<SourceProfile>>}}

CreateUserProfileCall(password, active, bot_type) ==
    [realm |-> IF active THEN 1 ELSE 2,
     email |-> IF password = None THEN <<"b", "o", "@", "e", "x">>
               ELSE <<"A", "l", "@", "E", "x">>,
     password |-> password, active |-> active, bot_type |-> bot_type,
     full_name |-> "Al", short_name |-> "al",
     bot_owner |-> IF Truthy(bot_type) THEN 100 ELSE NoneInt,
     is_mirror_dummy |-> ~active, tos_version |-> None, timezone |-> "UTC",
     tutorial_status |-> TUTORIAL_WAITING, enter_sends |-> Truthy(bot_type)]

CreateUserProfileArgs ==
    {CreateUserProfileCall(pw, act, bt) :
        pw \in {None, "pw"}, act \in BOOLEAN, bt \in {NoneInt, DEFAULT_BOT}}

\* The api key drawn inside create_user_profile: the draws and the key.
DrawnKeys ==
    {[altchars |-> AltChars(d[1], d[2]),
      raw |-> Urandom(KeyBytes, d[3], d[4]),
      key |-> random_api_key(d[1], d[2], Urandom(KeyBytes, d[3], d[4]))] :
        d \in {<<0, 83, 251, 0>>}}

MaxUsers == 2

DbInit ==
    /\ profiles = {}
    /\ recipients = {}
    /\ subscriptions = {}
    /\ pc = "idle"
    /\ args = <<>>
    /\ user_profile = UserProfileDefaults
    /\ recipient = NoneInt
    /\ result = <<>>
    /\ returned = {}
    /\ failed_at = None
    /\ db_at_call = <<{}, {}, {}>>

Quiescent == pc \in {"idle", "returned", "raised", "profile_returned"}

\* The next value of a table's auto-increment primary key.
NextId(rows) == Cardinality(rows) + 1

\* Variant: the object is saved before it is returned.
CreateUserProfileSaving ==
    /\ Quiescent
    /\ Cardinality(profiles) < MaxUsers
    /\ \E k \in DrawnKeys, a \in CreateUserProfileArgs :
        LET obj == [create_user_profile(a, k.key) EXCEPT !["id"] = NextId(profiles)]
        IN  /\ args' = a
            /\ key_in' = [altchars |-> k.altchars, raw |-> k.raw]
            /\ api_key' = k.key
            /\ user_profile' = obj
            /\ result' = <<obj>>
            /\ profiles' = profiles \cup {obj}
    /\ pc' = "profile_returned"
    /\ recipient' = NoneInt
    /\ failed_at' = None
    /\ db_at_call' = db
    /\ UNCHANGED <<copyvars, recipients, subscriptions, returned>>

\* create_user_profile called on its own (the bulk_create path).
CreateUserProfile ==
    /\ Quiescent
    /\ Cardinality(profiles) < MaxUsers
    /\ \E k \in DrawnKeys, a \in CreateUserProfileArgs :
        LET obj == create_user_profile(a, k.key)
        IN  /\ args' = a
            /\ key_in' = [altchars |-> k.altchars, raw |-> k.raw]
            /\ api_key' = k.key
            /\ user_profile' = obj
            /\ result' = <<obj>>
    /\ pc' = "profile_returned"
    /\ recipient' = NoneInt
    /\ failed_at' = None
    /\ db_at_call' = db
    /\ UNCHANGED <<copyvars, db, returned>>

\* create_user, lines 77-95: build the object in memory.
CreateUserBuild ==
    /\ Quiescent
    /\ Cardinality(profiles) < MaxUsers
    /\ \E k \in DrawnKeys, a \in CreateUserArgs :
        /\ args' = a
        /\ key_in' = [altchars |-> k.altchars, raw |-> k.raw]
        /\ api_key' = k.key
        /\ user_profile' = create_user_object(a, k.key)
    /\ pc' = "built"
    /\ result' = <<>>
    /\ recipient' = NoneInt
    /\ failed_at' = None
    /\ db_at_call' = db
    /\ UNCHANGED <<copyvars, db, returned>>

\* Line 97: user_profile.save() inserts the row and sets the primary key.
SaveProfile ==
    /\ pc = "built"
    /\ LET saved == [user_profile EXCEPT !["id"] = NextId(profiles)] IN
        /\ profiles' = profiles \cup {saved}
        /\ user_profile' = saved
    /\ pc' = "saved"
    /\ UNCHANGED <<keyvars, copyvars, recipients, subscriptions, args, recipient,
                   result, returned, failed_at, db_at_call>>

\* Variant: type_id taken from the Recipient's own id.
CreateRecipientOwnId ==
    /\ pc = "saved"
    /\ LET row == [id |-> NextId(recipients), type_id |-> NextId(recipients),
                   type |-> PERSONAL] IN
        /\ recipients' = recipients \cup {row}
        /\ recipient' = row.id
    /\ pc' = "recipient_created"
    /\ UNCHANGED <<keyvars, copyvars, profiles, subscriptions, args, user_profile,
                   result, returned, failed_at, db_at_call>>

\* Variant: the Recipient may be created before the profile is saved.
CreateRecipientBeforeSave ==
    /\ pc \in {"built", "saved"}
    /\ LET row == [id |-> NextId(recipients), type_id |-> user_profile["id"],
                   type |-> PERSONAL] IN
        /\ recipients' = recipients \cup {row}
        /\ recipient' = row.id
    /\ pc' = "recipient_created"
    /\ UNCHANGED <<keyvars, copyvars, profiles, subscriptions, args, user_profile,
                   result, returned, failed_at, db_at_call>>

\* Lines 99-100: Recipient.objects.create(type_id=user_profile.id, type=PERSONAL)
CreateRecipient ==
    /\ pc = "saved"
    /\ LET row == [id |-> NextId(recipients), type_id |-> user_profile["id"],
                   type |-> PERSONAL] IN
        /\ recipients' = recipients \cup {row}
        /\ recipient' = row.id
    /\ pc' = "recipient_created"
    /\ UNCHANGED <<keyvars, copyvars, profiles, subscriptions, args, user_profile,
                   result, returned, failed_at, db_at_call>>

\* Lines 101-102: Subscription.objects.create(...), then return user_profile.
CreateSubscription ==
    /\ pc = "recipient_created"
    /\ subscriptions' = subscriptions \cup
           {[id |-> NextId(subscriptions), user_profile |-> user_profile["id"],
             recipient |-> recipient]}
    /\ result' = <<user_profile>>
    /\ returned' = returned \cup {user_profile["id"]}
    /\ pc' = "returned"
    /\ UNCHANGED <<keyvars, copyvars, profiles, recipients, args, user_profile,
                   recipient, failed_at, db_at_call>>

\* The persistence layer raises in the write the call is about to make; nothing
\* in create_user catches it, so the call ends and its locals are gone.
Raise(step) ==
    /\ failed_at' = step
    /\ pc' = "raised"
    /\ args' = <<>>
    /\ user_profile' = UserProfileDefaults
    /\ recipient' = NoneInt
    /\ UNCHANGED <<keyvars, copyvars, db, result, returned, db_at_call>>

SaveRaises == pc = "built" /\ Raise("save")

\* Variant: the exception is caught and the call goes on.
CreateRecipientRaisesSwallowed ==
    /\ pc = "saved"
    /\ failed_at' = "recipient"
    /\ pc' = "recipient_created"
    /\ UNCHANGED <<keyvars, copyvars, db, args, user_profile, recipient, result,
                   returned, db_at_call>>

CreateRecipientRaises == pc = "saved" /\ Raise("recipient")

CreateSubscriptionRaises == pc = "recipient_created" /\ Raise("subscription")

-----------------------------------------------------------------------------
Init == KeyInit /\ CopyInit /\ DbInit

Next ==
    \/ CreateUserProfile
    \/ CreateUserBuild
    \/ SaveProfile
    \/ SaveRaises
    \/ CreateRecipient
    \/ CreateRecipientRaises
    \/ CreateSubscription
    \/ CreateSubscriptionRaises

Spec == Init /\ [][Next]_vars

\* random_api_key on its own.
SpecApiKey == Init /\ [][RandomApiKey]_vars

\* copy_user_settings on its own, on every pair of source and target.
InitCopy == KeyInit /\ CopyStart /\ DbInit
SpecCopy == InitCopy /\ [][CopyUserSettings]_vars

-----------------------------------------------------------------------------
(* Properties                                                              *)

Range(f) == {f[i] : i \in DOMAIN f}

PersonalRecipientsOf(id) ==
    {r \in recipients : r.type = PERSONAL /\ r.type_id = id}

SubscriptionsOf(id) == {s \in subscriptions : s.user_profile = id}

\* The profile has exactly one personal Recipient and exactly one Subscription,
\* and the Subscription is to that Recipient.
Complete(id) ==
    /\ Cardinality(PersonalRecipientsOf(id)) = 1
    /\ Cardinality(SubscriptionsOf(id)) = 1
    /\ \A r \in PersonalRecipientsOf(id), s \in SubscriptionsOf(id) :
           s.recipient = r.id

\* C1: every profile create_user has returned has exactly one PERSONAL Recipient
\* whose type_id is its id and exactly one Subscription, which is to that
\* Recipient; and the Recipient and Subscription rows a call has added belong
\* to the profile that call has saved and to no other.
C1_OneRecipientOneSubscription ==
    /\ \A id \in returned : Complete(id)
    /\ \A r \in recipients \ db_at_call[2] :
           /\ r.type = PERSONAL
           /\ \E p \in profiles \ db_at_call[1] : r.type_id = p["id"]
    /\ \A s \in subscriptions \ db_at_call[3] :
           \E p \in profiles \ db_at_call[1] : s.user_profile = p["id"]

\* Two profiles have been returned, the second by the call just completed.
C1_Witness ==
    /\ pc = "returned"
    /\ Cardinality(returned) = 2
    /\ user_profile["id"] = 2

\* C2: between calls, whether the last call returned or raised, every persisted
\* active profile has its personal Recipient and its Subscription.
C2_ActiveProfileComplete ==
    Quiescent => \A p \in profiles : p["is_active"] => Complete(p["id"])

\* C3: a profile built for a bot or for an inactive account has no usable
\* password, whatever password was passed and whether or not a source profile
\* was given: the object of the call, the object returned and every row saved.
C3_NoUsablePassword ==
    /\ pc \notin {"idle", "raised"} /\ (Truthy(args.bot_type) \/ ~args.active) =>
           /\ ~has_usable_password(user_profile)
           /\ \A i \in DOMAIN result : ~has_usable_password(result[i])
    /\ \A p \in profiles :
           p["is_bot"] \/ ~p["is_active"] => ~has_usable_password(p)

\* create_user has returned a bot built from a password and a source profile
\* whose own password is usable.
C3_Witness ==
    /\ pc = "returned"
    /\ Truthy(args.bot_type)
    /\ args.password # None
    /\ args.source_profile # <<>>
    /\ has_usable_password(args.source_profile[1])
    /\ result[1] \in profiles

AsciiLettersAndDigits == Range(ascii_letters) \cup Range(digits)

\* C4: the key is 32 characters long, has no padding, and each of its
\* characters is one of the 62 letters and digits of the base64 alphabet or
\* one of the two chosen characters, which are letters or digits themselves.
C4_ApiKeyShape ==
    api_key # <<>> =>
        /\ Len(api_key) = 32
        /\ key_in.altchars[1] \in AsciiLettersAndDigits
        /\ key_in.altchars[2] \in AsciiLettersAndDigits
        /\ \A i \in 1..Len(api_key) :
               /\ api_key[i] # Pad
               /\ api_key[i] \in (Range(Base64Table) \ {"+", "/"})
                                   \cup {key_in.altchars[1], key_in.altchars[2]}

\* The bytes drawn encode to a string with both '+' and '/' in it, and the two
\* chosen characters are the same character.
C4_Witness ==
    /\ api_key # <<>>
    /\ "+" \in Range(b2a_base64(key_in.raw))
    /\ "/" \in Range(b2a_base64(key_in.raw))
    /\ key_in.altchars[1] = key_in.altchars[2]

CopiedFields == property_types \cup notification_setting_types \cup {"full_name"}

\* C5: after copy_user_settings the target has the source's value in every
\* property, every notification setting and full_name; a second call with the
\* same arguments leaves the target as the first call left it.
C5_TargetEqualsSource ==
    /\ copies >= 1 =>
           \A f \in CopiedFields : target_profile[f] = source_profile[f]
    /\ copies >= 2 => target_profile = target_before

\* One copy has been made onto a target that differed from the source in every
\* copied field.
C5_Witness ==
    /\ copies = 1
    /\ \A f \in CopiedFields : target_before[f] # source_profile[f]

\* The row of the current call's profile.
SavedRow == CHOOSE p \in profiles : p["id"] = user_profile["id"]

\* C6: the row saved by a create_user call that was given a source profile
\* has the source's properties and notification settings, and has the email,
\* short_name, realm, is_realm_admin, avatar_source, bot fields and password
\* that follow from the call's own arguments and the api key generated in the
\* call.
C6_SourceOverlay ==
    user_profile["id"] # NoneInt /\ args.source_profile # <<>> =>
        LET p   == SavedRow
            src == args.source_profile[1]
        IN  /\ \A f \in property_types \cup notification_setting_types :
                   p[f] = src[f]
            /\ p["email"] = normalize_email(args.email)
            /\ p["short_name"] = args.short_name
            /\ p["realm"] = args.realm
            /\ p["is_realm_admin"] = args.is_realm_admin
            /\ p["avatar_source"] = args.avatar_source
            /\ p["is_bot"] = Truthy(args.bot_type)
            /\ p["bot_type"] = args.bot_type
            /\ p["bot_owner"] = args.bot_owner
            /\ p["password"] =
                   IF Truthy(args.bot_type) \/ ~args.active
                   THEN UnusablePassword ELSE set_password(args.password)
            /\ p["api_key"] = api_key

\* create_user has returned a profile built from a source profile and from
\* arguments that differ from the source in timezone, email, realm, admin flag,
\* avatar source, password and api key.
C6_Witness ==
    /\ pc = "returned"
    /\ args.source_profile # <<>>
    /\ LET src == args.source_profile[1] IN
        /\ args.timezone # src["timezone"]
        /\ Realms[args.realm].default_language # src["default_language"]
        /\ normalize_email(args.email) # src["email"]
        /\ args.realm # src["realm"]
        /\ args.is_realm_admin # src["is_realm_admin"]
        /\ args.avatar_source # src["avatar_source"]
        /\ set_password(args.password) # src["password"]
        /\ args.password # None /\ args.active /\ ~Truthy(args.bot_type)
        /\ api_key # src["api_key"]
        /\ UserProfileDefaults["enable_sounds"] # src["enable_sounds"]

\* C7: a call of create_user_profile leaves the three tables as they were, and
\* the object it returns has no primary key and is no row of the table.
C7_ProfileUnsaved ==
    [][pc' = "profile_returned" =>
          /\ profiles' = profiles
          /\ recipients' = recipients
          /\ subscriptions' = subscriptions
          /\ result'[1]["id"] = NoneInt
          /\ result'[1] \notin profiles']_vars

\* create_user_profile has returned while the tables hold rows.
C7_Witness ==
    /\ pc = "profile_returned"
    /\ profiles # {}
    /\ recipients # {}
    /\ subscriptions # {}

\* C8: when save raises, the call ends there: no row of any table has been
\* added and nothing is returned; when the Recipient creation raises, the call
\* ends there: the profile row is the only row added and nothing is returned.
C8_FailurePropagates ==
    /\ failed_at = "save" =>
           /\ pc = "raised"
           /\ db = db_at_call
           /\ result = <<>>
    /\ failed_at = "recipient" =>
           /\ pc = "raised"
           /\ db_at_call[1] \subseteq profiles
           /\ Cardinality(profiles \ db_at_call[1]) = 1
           /\ recipients = db_at_call[2]
           /\ subscriptions = db_at_call[3]
           /\ result = <<>>
           /\ \A p \in profiles \ db_at_call[1] : p["id"] \notin returned

\* The Recipient creation of the second call has raised.
C8_Witness ==
    /\ failed_at = "recipient"
    /\ Cardinality(profiles) = 2
    /\ returned = {1}

\* C9: a call of copy_user_settings leaves the source as it was, leaves every
\* field of the target other than the copied ones as it was, and writes no
\* table.
C9_CopyFrame ==
    [][copies' # copies =>
          /\ source_profile' = source_profile
          /\ \A f \in Fields \ CopiedFields : target_profile'[f] = target_profile[f]
          /\ UNCHANGED db]_vars

\* A copy has changed the target, whose email, password and api key differ
\* from the source's.
C9_Witness ==
    /\ copies = 1
    /\ target_profile # target_before
    /\ target_profile["email"] # source_profile["email"]
    /\ target_profile["password"] # source_profile["password"]
    /\ target_profile["api_key"] # source_profile["api_key"]

\* C10: a step that adds a Recipient finds the call's profile already saved
\* with an id, which is the Recipient's type_id; a step that adds a Subscription
\* finds the call's Recipient already there; and neither writes another table.
C10_WriteOrder ==
    [][/\ recipients' # recipients =>
              /\ user_profile["id"] # NoneInt
              /\ user_profile \in profiles
              /\ \A r \in recipients' \ recipients : r.type_id = user_profile["id"]
              /\ profiles' = profiles /\ subscriptions' = subscriptions
       /\ subscriptions' # subscriptions =>
              /\ \E r \in recipients :
                     r.id = recipient /\ r.type_id = user_profile["id"]
              /\ \A s \in subscriptions' \ subscriptions : s.recipient = recipient
              /\ profiles' = profiles /\ recipients' = recipients
       /\ profiles' # profiles =>
              /\ recipients' = recipients /\ subscriptions' = subscriptions
              /\ PersonalRecipientsOf(user_profile'["id"]) = {}]_vars

\* A call has made its three writes.
C10_Witness ==
    /\ pc = "returned"
    /\ user_profile \in profiles
    /\ PersonalRecipientsOf(user_profile["id"]) # {}
    /\ SubscriptionsOf(user_profile["id"]) # {}

====
